---- MODULE Spec2Model ----
(***************************************************************************)
(* A model of gps.py: the DMS encoder to_deg, the GPS-IFD merger           *)
(* add_gps_to_image and the command-line entry point that maps its         *)
(* exceptions to exit codes.                                               *)
(*                                                                         *)
(* Decimal degrees are fixed-point values: a whole number of degrees and a *)
(* fraction counted in units of 1/UnitsPerDeg degree, with a separate      *)
(* sign.  One unit is 1/SubTicks of the smallest step of the seconds       *)
(* numerator (1/10000 arc-second), so that values between two steps, and   *)
(* exact ties, are representable.                                          *)
(***************************************************************************)
EXTENDS Integers, FiniteSets, Sequences, TLC

\* ------------------------------------------------------------------ bounds
\* Resolution of the fixed-point grid: units per 1/10000 arc-second.
SubTicks == 4
\* Number of calls made one after the other.
MaxCalls == 2
\* Number of calls two concurrent callers make between them.
MaxConcCalls == 2

\* ------------------------------------------------------- program constants
\* gps.py:17  (value - deg) * 60
MinPerDeg == 60
\* gps.py:19  (min_float - minutes) * 60
SecPerMin == 60
\* gps.py:19,20  seconds are scaled by 10000
SecScale == 10000
\* gps.py:89  -90.0 <= args.lat <= 90.0
LatLimit == 90
\* gps.py:93  -180.0 <= args.lon <= 180.0
LonLimit == 180

UnitsPerTick == SubTicks
UnitsPerMin == SecPerMin * SecScale * UnitsPerTick
UnitsPerDeg == MinPerDeg * UnitsPerMin

\* A signed decimal-degree value with a fraction given in millionths.
Coord(sign, whole, micro) ==
    [sign |-> sign, whole |-> whole, frac |-> micro * (UnitsPerDeg \div 1000000)]

\* ------------------------------------------------------------- DMS encoder
\* Python's round(): to the nearest integer, ties to the even one.
\* The argument is the non-negative rational n / d.
Round(n, d) ==
    LET q == n \div d
        r == n % d
    IN  IF 2 * r < d THEN q
        ELSE IF 2 * r > d THEN q + 1
        ELSE IF q % 2 = 0 THEN q ELSE q + 1

\* The encoder with the second "* 60" dropped.
to_deg_noscale(value) ==
    LET deg == value.whole
        minutes == value.frac \div UnitsPerMin
        sec == Round(value.frac % UnitsPerMin, UnitsPerTick * SecPerMin)
    IN  <<<<deg, 1>>, <<minutes, 1>>, <<sec, SecScale>>>>

\* to_deg(value), value >= 0 given as [whole, frac].
\*   deg       = int(value)                       the whole part
\*   min_float = (value - deg) * 60               frac / UnitsPerMin
\*   minutes   = int(min_float)
\*   sec       = round((min_float - minutes) * 60 * 10000)
\*             = round((frac mod UnitsPerMin) / UnitsPerTick)
to_deg(value) ==
    LET deg == value.whole
        minutes == value.frac \div UnitsPerMin
        sec == Round(value.frac % UnitsPerMin, UnitsPerTick)
    IN  <<<<deg, 1>>, <<minutes, 1>>, <<sec, SecScale>>>>

\* abs(x) of a signed coordinate.
Abs(c) == [whole |-> c.whole, frac |-> c.frac]

\* x >= 0 (true of 0.0 and of -0.0).
NonNeg(c) == c.sign = 1 \/ (c.whole = 0 /\ c.frac = 0)

\* -limit <= x <= limit
InRange(c, limit) == c.whole < limit \/ (c.whole = limit /\ c.frac = 0)

\* ------------------------------------------------------------ the EXIF tree
EmptyIfd == [t \in {} |-> 0]

\* gps.py:43  {"0th": {}, "Exif": {}, "GPS": {}, "1st": {}, "thumbnail": None}
EmptyTree ==
    "0th" :> EmptyIfd @@ "Exif" :> EmptyIfd @@ "GPS" :> EmptyIfd @@
    "1st" :> EmptyIfd @@ "thumbnail" :> "None"

\* The groups add_gps_to_image does not assign.
OtherGroups == {"0th", "Exif", "1st", "thumbnail"}

\* The four tags of the GPS IFD that add_gps_to_image builds.
GpsTags == {"GPSLatitudeRef", "GPSLatitude", "GPSLongitudeRef", "GPSLongitude"}

\* Trees found in files before the program runs.
CameraTree ==
    [EmptyTree EXCEPT !["0th"] = "Make" :> "cam",
                      !["Exif"] = "ISOSpeedRatings" :> 100,
                      !["1st"] = "Compression" :> 6,
                      !["thumbnail"] = "thumb"]
AltitudeTree ==
    [EmptyTree EXCEPT !["0th"] = "Make" :> "cam",
                      !["GPS"] = "GPSAltitude" :> <<120, 1>>]
LocatedTree ==
    [CameraTree EXCEPT !["GPS"] =
        "GPSLatitudeRef" :> "S" @@ "GPSLatitude" :> <<<<1, 1>>, <<2, 1>>, <<3, SecScale>>>> @@
        "GPSLongitudeRef" :> "W" @@ "GPSLongitude" :> <<<<4, 1>>, <<5, 1>>, <<6, SecScale>>>> @@
        "GPSAltitude" :> <<120, 1>>]
InitialTrees == {EmptyTree, CameraTree, AltitudeTree, LocatedTree}

\* The raw EXIF blob of a file: absent (img.info has no 'exif'), an empty
\* byte string, bytes the codec cannot decode, or the encoding of a tree.
Blob(kind, tree) == [kind |-> kind, tree |-> tree]
NoBlob == Blob("absent", EmptyTree)
CorruptBlob == Blob("corrupt", EmptyTree)
InitialBlobs ==
    {NoBlob, Blob("empty", EmptyTree), CorruptBlob} \cup
    {Blob("tree", t) : t \in InitialTrees}

\* A path: whether it names a regular file, the format Image.open detects
\* ("UNIDENTIFIED" when it detects none and raises), and the EXIF blob.
NoFile == [exists |-> FALSE, format |-> "NONE", exif |-> NoBlob]
InitialFiles ==
    {NoFile} \cup
    [exists : {TRUE}, format : {"JPEG", "TIFF", "PNG"}, exif : InitialBlobs] \cup
    {[exists |-> TRUE, format |-> "UNIDENTIFIED", exif |-> NoBlob]}

\* ---------------------------------------------------- add_gps_to_image parts
\* The format check accepting every detected format.
FormatSupported_any(fmt) == TRUE

\* gps.py:36  img_format in ("JPEG", "TIFF")
FormatSupported(fmt) == fmt \in {"JPEG", "TIFF"}

\* gps.py:40  `if existing_exif:` - None and b'' are both falsy.
Truthy(blob) == blob.kind \notin {"absent", "empty"}

\* gps.py:40-43  load the tree of the blob or initialise an empty one
\* (a blob that does not decode makes piexif.load raise instead).
LoadExif(blob) == IF Truthy(blob) THEN blob.tree ELSE EmptyTree

\* The guard with the overwrite flag read the wrong way round.
GuardTrips_flipped(exif_dict, overwrite) ==
    /\ "GPS" \in DOMAIN exif_dict
    /\ DOMAIN exif_dict["GPS"] # {}
    /\ overwrite

\* The guard ignoring the overwrite flag.
GuardTrips_noforce(exif_dict, overwrite) ==
    /\ "GPS" \in DOMAIN exif_dict
    /\ DOMAIN exif_dict["GPS"] # {}

\* The guard testing that a GPS group is present, not that it has entries.
GuardTrips_presence(exif_dict, overwrite) ==
    /\ "GPS" \in DOMAIN exif_dict
    /\ ~overwrite

\* The guard testing only for coordinates already stored.
GuardTrips_coords(exif_dict, overwrite) ==
    /\ "GPS" \in DOMAIN exif_dict
    /\ "GPSLatitude" \in DOMAIN exif_dict["GPS"]
    /\ ~overwrite

\* gps.py:46  exif_dict.get('GPS') and exif_dict['GPS'] and not overwrite
GuardTrips(exif_dict, overwrite) ==
    /\ "GPS" \in DOMAIN exif_dict
    /\ DOMAIN exif_dict["GPS"] # {}
    /\ ~overwrite

\* gps.py:52  'N' if lat >= 0 else 'S'
lat_ref(lat) == IF NonNeg(lat) THEN "N" ELSE "S"

\* gps.py:53  'E' if lon >= 0 else 'W'
lon_ref(lon) == IF NonNeg(lon) THEN "E" ELSE "W"

\* gps.py:50-60  the GPS IFD of a pair of coordinates
gps_ifd(lat, lon) ==
    "GPSLatitudeRef" :> lat_ref(lat) @@
    "GPSLatitude" :> to_deg(Abs(lat)) @@
    "GPSLongitudeRef" :> lon_ref(lon) @@
    "GPSLongitude" :> to_deg(Abs(lon))

\* The merge building a fresh tree around the new GPS group.
MergeGps_fresh(exif_dict, gps) == [EmptyTree EXCEPT !["GPS"] = gps]

\* The merge updating the GPS group in place (dict.update).
MergeGps_update(exif_dict, gps) == [exif_dict EXCEPT !["GPS"] = gps @@ exif_dict["GPS"]]

\* gps.py:63  exif_dict['GPS'] = gps_ifd
MergeGps(exif_dict, gps) == [exif_dict EXCEPT !["GPS"] = gps]

\* gps.py:99-110  the exit status of an exception class; an exception that
\* is none of the three named classes reaches `except Exception`.
ExitOf(exc) ==
    CASE exc = "RuntimeError" -> 5
      [] exc = "ValueError" -> 6
      [] exc = "FileNotFoundError" -> 2
      [] OTHER -> 10

\* The classes of the exceptions the EXIF codec raises (piexif.load on a
\* blob it cannot decode, piexif.insert on a file it cannot rewrite): its
\* InvalidImageDataError derives from ValueError, its other failures
\* (struct.error, OSError, ...) derive from Exception only.
CodecErrors == {"ValueError", "Exception"}

\* ------------------------------------------------------------------ inputs
NorthEast == [lat |-> Coord(1, 9, 574639), lon |-> Coord(1, 77, 679861)]
SouthWest == [lat |-> Coord(-1, 33, 500000), lon |-> Coord(-1, 70, 250000)]
Origin == [lat |-> Coord(1, 0, 0), lon |-> Coord(1, 0, 0)]
LatTooBig == [lat |-> Coord(1, 91, 0), lon |-> Coord(1, 10, 0)]
LonTooBig == [lat |-> Coord(-1, 10, 0), lon |-> Coord(-1, 180, 500000)]

Args(via, at, overwrite) ==
    [via |-> via, lat |-> at.lat, lon |-> at.lon, overwrite |-> overwrite]

\* What a caller passes: the command line (gps.py:81-98), or a direct call
\* of add_gps_to_image(image_path, lat, lon, overwrite).
CliInputs ==
    {Args("cli", at, ow) :
        at \in {NorthEast, SouthWest, Origin, LatTooBig, LonTooBig}, ow \in BOOLEAN}
ApiInputs == {Args("api", at, ow) : at \in {NorthEast, Origin}, ow \in BOOLEAN}
Inputs == CliInputs \cup ApiInputs
\* What two concurrent callers pass: different coordinates by either entry.
ConcInputs ==
    {Args("cli", NorthEast, ow) : ow \in BOOLEAN} \cup
    {Args("api", Origin, ow) : ow \in BOOLEAN}

\* Inputs of the encoder: values of [0, 180) around the ends of a degree and
\* of a minute, and between two steps of the seconds numerator.
DegInputs ==
    {[whole |-> d, frac |-> m * UnitsPerMin + t * UnitsPerTick + u] :
        d \in {0, 1, 9, 89, 179},
        m \in {0, 1, 34, 59},
        t \in {0, 1, 2, 287004, 599998, 599999},
        u \in 0 .. (UnitsPerTick - 1)}

\* ------------------------------------------------------------------- state
VARIABLES
    file,      \* the image at the path all calls name
    pc,        \* per caller: "idle", "main", "isfile", "open", "insert"
    args,      \* per caller: the arguments of the call in progress
    before,    \* per caller: the file when the call began
    probed,    \* per caller: the EXIF blob Image.open read (gps.py:34)
    exif_dict, \* per caller: the tree to be written (gps.py:41-63)
    writes,    \* per caller: executions of piexif.insert in this call
    res,       \* per caller: the outcome of the last call that ended
    prev,      \* per caller: the outcome of the call before that one
    calls,     \* per caller: calls begun
    value,     \* encoder: the input of to_deg
    dms        \* encoder: <<>> or the result of to_deg(value)

vars == <<file, pc, args, before, probed, exif_dict, writes, res, prev, calls, value, dms>>

Callers == {1, 2}

NoArgs == Args("none", Origin, FALSE)
NoRes ==
    [status |-> "none", exc |-> "none", exit |-> -1, args |-> NoArgs, core |-> FALSE,
     before |-> NoFile, probed |-> NoBlob, after |-> NoFile, writes |-> 0]

InitCallers ==
    /\ pc = [p \in Callers |-> "idle"]
    /\ args = [p \in Callers |-> NoArgs]
    /\ before = [p \in Callers |-> NoFile]
    /\ probed = [p \in Callers |-> NoBlob]
    /\ exif_dict = [p \in Callers |-> EmptyTree]
    /\ writes = [p \in Callers |-> 0]
    /\ res = [p \in Callers |-> NoRes]
    /\ prev = [p \in Callers |-> NoRes]
    /\ calls = [p \in Callers |-> 0]

Init ==
    /\ file \in InitialFiles
    /\ InitCallers
    /\ value = [whole |-> 0, frac |-> 0]
    /\ dms = <<>>

\* The call of caller p ends: with status "ok", or with the error kind
\* `status` raised as an exception of class `exc` (or, on the command line,
\* reported by sys.exit(code) before add_gps_to_image is called).
End(p, status, exc, code, core, f, w) ==
    /\ res' = [res EXCEPT ![p] =
            [status |-> status, exc |-> exc, exit |-> code, args |-> args[p],
             core |-> core, before |-> before[p], probed |-> probed[p],
             after |-> f, writes |-> w]]
    /\ pc' = [pc EXCEPT ![p] = "idle"]
    /\ args' = [args EXCEPT ![p] = NoArgs]
    /\ before' = [before EXCEPT ![p] = NoFile]
    /\ probed' = [probed EXCEPT ![p] = NoBlob]
    /\ exif_dict' = [exif_dict EXCEPT ![p] = EmptyTree]
    /\ writes' = [writes EXCEPT ![p] = 0]

\* gps.py:97-110  add_gps_to_image raises: on the command line the first
\* matching except clause picks the exit status; a direct caller gets the
\* exception and no exit status.
Raise(p, status, exc, f, w) ==
    End(p, status, exc, IF args[p].via = "cli" THEN ExitOf(exc) ELSE -1, TRUE, f, w)

\* A caller starts the program, or calls add_gps_to_image directly.
Start(p, inputs, limit) ==
    /\ pc[p] = "idle"
    /\ calls[1] + calls[2] < limit
    /\ \E a \in inputs :
        /\ args' = [args EXCEPT ![p] = a]
        /\ pc' = [pc EXCEPT ![p] = IF a.via = "cli" THEN "main" ELSE "isfile"]
    /\ before' = [before EXCEPT ![p] = file]
    /\ prev' = [prev EXCEPT ![p] = res[p]]
    /\ calls' = [calls EXCEPT ![p] = @ + 1]
    /\ UNCHANGED <<file, probed, exif_dict, writes, res, value, dms>>

\* gps.py:85-95  the command line's validation.
Main(p) ==
    /\ pc[p] = "main"
    /\ IF ~file.exists
         THEN End(p, "NotFound", "none", 2, FALSE, file, 0)
       ELSE IF ~InRange(args[p].lat, LatLimit)
         THEN End(p, "BadLat", "none", 3, FALSE, file, 0)
       ELSE IF ~InRange(args[p].lon, LonLimit)
         THEN End(p, "BadLon", "none", 4, FALSE, file, 0)
       ELSE /\ pc' = [pc EXCEPT ![p] = "isfile"]
            /\ UNCHANGED <<args, before, probed, exif_dict, writes, res>>
    /\ UNCHANGED <<file, prev, calls, value, dms>>

\* gps.py:28-29  os.path.isfile(image_path)
IsFile(p) ==
    /\ pc[p] = "isfile"
    /\ IF ~file.exists
         THEN Raise(p, "NotFound", "FileNotFoundError", file, 0)
         ELSE /\ pc' = [pc EXCEPT ![p] = "open"]
              /\ UNCHANGED <<args, before, probed, exif_dict, writes, res>>
    /\ UNCHANGED <<file, prev, calls, value, dms>>

\* gps.py:32-65  the read probe and everything computed from it: the format
\* check, the load of the tree, the overwrite guard, the GPS IFD, the merge.
Probe(p) ==
    /\ pc[p] = "open"
    /\ IF file.format = "UNIDENTIFIED"
         THEN Raise(p, "OpenFailed", "OSError", file, 0)
       ELSE IF ~FormatSupported(file.format)
         THEN Raise(p, "UnsupportedFormat", "ValueError", file, 0)
       ELSE IF Truthy(file.exif) /\ file.exif.kind = "corrupt"
         THEN \E exc \in CodecErrors : Raise(p, "CorruptExif", exc, file, 0)
       ELSE IF GuardTrips(LoadExif(file.exif), args[p].overwrite)
         THEN Raise(p, "GpsAlreadyPresent", "RuntimeError", file, 0)
       ELSE /\ probed' = [probed EXCEPT ![p] = file.exif]
            /\ exif_dict' = [exif_dict EXCEPT ![p] =
                    MergeGps(LoadExif(file.exif), gps_ifd(args[p].lat, args[p].lon))]
            /\ pc' = [pc EXCEPT ![p] = "insert"]
            /\ UNCHANGED <<args, before, writes, res>>
    /\ UNCHANGED <<file, prev, calls, value, dms>>

\* gps.py:68  piexif.insert(exif_bytes, image_path) replaces the file's EXIF
\* segment by the encoding of the tree.
InsertOk(p) ==
    /\ pc[p] = "insert"
    /\ file' = [file EXCEPT !.exif = Blob("tree", exif_dict[p])]
    /\ End(p, "ok", "none", IF args[p].via = "cli" THEN 0 ELSE -1, TRUE, file', writes[p] + 1)
    /\ UNCHANGED <<prev, calls, value, dms>>

\* gps.py:68  piexif.insert raises: the file is as it was, or is left with
\* an EXIF segment that no longer decodes.
InsertFails(p) ==
    /\ pc[p] = "insert"
    /\ \E damaged \in BOOLEAN :
        file' = IF damaged THEN [file EXCEPT !.exif = CorruptBlob] ELSE file
    /\ \E exc \in CodecErrors : Raise(p, "WriteFailed", exc, file', writes[p] + 1)
    /\ UNCHANGED <<prev, calls, value, dms>>

Step(p, inputs, limit) ==
    \/ Start(p, inputs, limit)
    \/ Main(p)
    \/ IsFile(p)
    \/ Probe(p)
    \/ InsertOk(p)
    \/ InsertFails(p)

\* One caller, one call after the other.
Next == Step(1, Inputs, MaxCalls)

Spec == Init /\ [][Next]_vars

\* Two callers of the same path, their steps interleaved.
NextConc == \E p \in Callers : Step(p, ConcInputs, MaxConcCalls)

SpecConc == Init /\ [][NextConc]_vars

\* ------------------------------------------------------- the encoder alone
InitDeg ==
    /\ file = NoFile
    /\ InitCallers
    /\ value \in DegInputs
    /\ dms = <<>>

Convert ==
    /\ dms = <<>>
    /\ dms' = to_deg(value)
    /\ UNCHANGED <<file, pc, args, before, probed, exif_dict, writes, res, prev, calls, value>>

NextDeg == Convert

SpecDeg == InitDeg /\ [][NextDeg]_vars

\* ================================================================== claims
\* The last call of the single caller and the one before it.
Last == res[1]
First == prev[1]

\* Two calls have ended, the second one being Last.
TwoCalls == pc[1] = "idle" /\ First.status # "none"

\* The GPS group a call found in the EXIF blob b.
GpsOf(b) == LoadExif(b)["GPS"]

Abs0(x) == IF x < 0 THEN -x ELSE x

\* ---------------------------------------------------------------------- C1
\* C1: after a call of add_gps_to_image that succeeded, a second call on the
\* same path with overwrite = FALSE ends in GpsAlreadyPresent (a
\* RuntimeError, exit status 5 on the command line), executes no write, and
\* leaves the file, with the GPS group the first call wrote, as it was.
C1_GuardAfterSuccess ==
    (TwoCalls /\ First.status = "ok" /\ Last.core /\ ~Last.args.overwrite) =>
        /\ Last.status = "GpsAlreadyPresent"
        /\ Last.exc = "RuntimeError"
        /\ (Last.args.via = "cli" => Last.exit = 5)
        /\ Last.writes = 0
        /\ file = First.after
        /\ file.exif.tree["GPS"] = gps_ifd(First.args.lat, First.args.lon)

C1_Witness ==
    /\ TwoCalls /\ First.status = "ok" /\ ~First.args.overwrite
    /\ Last.core /\ ~Last.args.overwrite /\ Last.args.via = "cli"
    /\ Last.args.lat # First.args.lat
    /\ Last.status = "GpsAlreadyPresent" /\ Last.exit = 5

\* ---------------------------------------------------------------------- C2
\* C2: after every successful call the 0th, Exif and 1st groups and the
\* thumbnail of the tree in the file are those loaded from the file before
\* the call; only the GPS group may differ.
C2_OtherGroupsKept ==
    Last.status = "ok" =>
        /\ Last.after.exif.kind = "tree"
        /\ \A g \in OtherGroups :
            Last.after.exif.tree[g] = LoadExif(Last.before.exif)[g]
        /\ Last.after.exists = Last.before.exists
        /\ Last.after.format = Last.before.format

C2_Witness ==
    /\ Last.status = "ok"
    /\ Last.before.exif = Blob("tree", LocatedTree)
    /\ Last.after.exif.tree["0th"] = "Make" :> "cam"
    /\ Last.after.exif.tree["thumbnail"] = "thumb"
    /\ Last.after.exif.tree["GPS"] # LocatedTree["GPS"]

\* ---------------------------------------------------------------------- C3
\* C3: a call that ends in NotFound, UnsupportedFormat, CorruptExif or
\* GpsAlreadyPresent has executed no write and leaves the file as it was; a
\* call of add_gps_to_image on a file of another detected format than JPEG
\* or TIFF ends in UnsupportedFormat; a call executes the write at most
\* once, and only for an existing JPEG or TIFF file whose EXIF decoded and
\* passed the overwrite guard.
C3_NoWriteOnFailure ==
    /\ Last.status \in {"NotFound", "UnsupportedFormat", "CorruptExif", "GpsAlreadyPresent"} =>
            Last.writes = 0 /\ Last.after = Last.before
    /\ (Last.core /\ Last.before.exists /\ Last.before.format = "PNG") =>
            Last.status = "UnsupportedFormat" /\ Last.after = Last.before
    /\ Last.writes <= 1
    /\ Last.writes = 1 =>
            /\ Last.before.exists
            /\ Last.before.format \in {"JPEG", "TIFF"}
            /\ Last.before.exif.kind # "corrupt"
            /\ (Last.args.overwrite \/ DOMAIN GpsOf(Last.before.exif) = {})

C3_Witness ==
    /\ Last.core /\ Last.before.exists /\ Last.before.format = "PNG"
    /\ Last.before.exif = Blob("tree", CameraTree)
    /\ Last.args.overwrite
    /\ Last.status = "UnsupportedFormat" /\ file = Last.before

\* ---------------------------------------------------------------------- C4
\* Two calls of add_gps_to_image in a row on a JPEG or TIFF file, with the
\* same coordinates and overwrite = TRUE.
TwiceForced ==
    /\ TwoCalls
    /\ First.core /\ Last.core
    /\ First.args = Last.args /\ Last.args.overwrite
    /\ First.before.exists /\ First.before.format \in {"JPEG", "TIFF"}

C5_GpsGroupContent ==
    Last.status = "ok" =>
        LET g == Last.after.exif.tree["GPS"]
            lat == Last.args.lat
            lon == Last.args.lon
            negative(c) == c.sign = -1 /\ (c.whole > 0 \/ c.frac > 0)
        IN  /\ DOMAIN g = GpsTags
            /\ g["GPSLatitude"] = to_deg([whole |-> lat.whole, frac |-> lat.frac])
            /\ g["GPSLongitude"] = to_deg([whole |-> lon.whole, frac |-> lon.frac])
            /\ g["GPSLatitudeRef"] = (IF negative(lat) THEN "S" ELSE "N")
            /\ g["GPSLongitudeRef"] = (IF negative(lon) THEN "W" ELSE "E")
            /\ (lat = NorthEast.lat =>
                    g["GPSLatitude"] = <<<<9, 1>>, <<34, 1>>, <<287004, 10000>>>>)
            /\ (lon = SouthWest.lon =>
                    g["GPSLongitude"] = <<<<70, 1>>, <<15, 1>>, <<0, 10000>>>>)

C5_Witness ==
    /\ Last.status = "ok" /\ Last.args.overwrite
    /\ "GPSAltitude" \in DOMAIN GpsOf(Last.before.exif)
    /\ Last.args.lat = Origin.lat /\ Last.args.lon = Origin.lon
    /\ file.exif.tree["GPS"]["GPSLatitudeRef"] = "N"
    /\ file.exif.tree["GPS"]["GPSLongitudeRef"] = "E"

\* ---------------------------------------------------------------------- C6
\* The value of the triple t less the value v, in units.
ReconError(v, t) ==
    (t[1][1] - v.whole) * UnitsPerDeg + t[2][1] * UnitsPerMin + t[3][1] * UnitsPerTick - v.frac

\* C6: for v in [0, 180), d + m/60 + (s/10000)/3600 of to_deg(v) differs from
\* v by at most 1/10000 arc-second, and to_deg(0) = ((0,1),(0,1),(0,10000)).
C6_RoundTrip ==
    dms # <<>> =>
        /\ dms[1][2] = 1 /\ dms[2][2] = 1 /\ dms[3][2] = 10000
        /\ Abs0(ReconError(value, dms)) <= UnitsPerTick
        /\ (value.whole = 0 /\ value.frac = 0) => dms = <<<<0, 1>>, <<0, 1>>, <<0, 10000>>>>

C6_Witness ==
    /\ dms # <<>>
    /\ value.whole = 179
    /\ value.frac > 59 * UnitsPerMin
    /\ Abs0(ReconError(value, dms)) = UnitsPerTick \div 2
    /\ dms[3][1] = 599998

\* ---------------------------------------------------------------------- C7
\* The exit status the error kinds are meant to have.
ExpectedExit(r) ==
    CASE r.status = "ok" -> 0
      [] r.status = "NotFound" -> 2
      [] r.status = "BadLat" -> 3
      [] r.status = "BadLon" -> 4
      [] r.status = "GpsAlreadyPresent" -> 5
      [] r.status = "UnsupportedFormat" -> 6
      [] OTHER -> 10

\* C7: every run of the command line ends with the exit status of its first
\* failing step: 0, 2, 3, 4, 5 only for GPS present without --force, 6 only
\* for an unsupported format, and 10 for any other failure of the core,
\* CorruptExif and WriteFailed included.
C7_ExitCodes ==
    (Last.status # "none" /\ Last.args.via = "cli") => Last.exit = ExpectedExit(Last)

\* ---------------------------------------------------------------------- C8
\* C8: on an existing JPEG or TIFF file whose EXIF is absent or decodes,
\* add_gps_to_image ends in GpsAlreadyPresent exactly when the loaded GPS
\* group has an entry and overwrite is FALSE; otherwise it goes on to the
\* write.
C8_GuardCondition ==
    (/\ Last.core
     /\ Last.before.exists /\ Last.before.format \in {"JPEG", "TIFF"}
     /\ Last.before.exif.kind # "corrupt") =>
        /\ Last.status = "GpsAlreadyPresent" <=>
                (DOMAIN GpsOf(Last.before.exif) # {} /\ ~Last.args.overwrite)
        /\ Last.status # "GpsAlreadyPresent" => Last.writes = 1

C8_Witness ==
    /\ Last.core /\ ~Last.args.overwrite
    /\ Last.before.exif = Blob("tree", EmptyTree)
    /\ Last.status = "ok" /\ Last.writes = 1

\* ---------------------------------------------------------------------- C9
\* C9: to_deg(v) is ((d,1),(m,1),(s,10000)) with d, m, s >= 0, m <= 59 and
\* s <= 599999: the seconds stay below 60.0000.
C9_WellFormed ==
    dms # <<>> =>
        /\ dms[1][2] = 1 /\ dms[2][2] = 1 /\ dms[3][2] = 10000
        /\ dms[1][1] >= 0
        /\ dms[2][1] \in 0 .. 59
        /\ dms[3][1] \in 0 .. 599999

\* --------------------------------------------------------------------- C10
\* A call of caller p that ended with its write done and overwrite = FALSE.
WroteUnforced(p) == res[p].status = "ok" /\ ~res[p].args.overwrite

\* C10 as stated: of two interleaved calls with overwrite = FALSE on the
\* same path, at most one completes its write.
C10_AsStated == ~(WroteUnforced(1) /\ WroteUnforced(2))

\* C10, amended: a call with overwrite = FALSE executes its write only if
\* the GPS group it read at its own read probe was empty; two such calls both
\* complete their writes only when each one's probe came before the other's
\* write (both read the same EXIF, without GPS entries), the later write
\* replacing the earlier.
C10_WriteOnlyAfterEmptyProbe ==
    /\ \A p \in Callers :
        /\ (pc[p] = "insert" /\ ~args[p].overwrite) => DOMAIN GpsOf(probed[p]) = {}
        /\ (res[p].writes = 1 /\ ~res[p].args.overwrite) => DOMAIN GpsOf(res[p].probed) = {}
    /\ (WroteUnforced(1) /\ WroteUnforced(2)) =>
        /\ res[1].probed = res[2].probed
        /\ res[1].before.exif = res[2].before.exif
        /\ file.exif \in {res[1].after.exif, res[2].after.exif}

C10_Witness ==
    /\ WroteUnforced(1) /\ WroteUnforced(2)
    /\ pc[1] = "idle" /\ pc[2] = "idle"
    /\ res[1].after.exif # res[2].after.exif
    /\ file.exif = res[1].after.exif

====
